---- MODULE Spec2Model ----
(***************************************************************************)
(* De-identification pipeline of "bin/app copy.py": deidentify_data and    *)
(* the module-level call that feeds it the dataset and the sidebar         *)
(* settings.  A DataFrame is a record of its column labels, its index      *)
(* labels and its rows (one function from column label to cell per row).   *)
(***************************************************************************)
EXTENDS Integers, Sequences, FiniteSets, TLC

VARIABLES raw_df, k_value, hash_salt, selected_quasi_identifiers,
          df_clean, df_clean_is_df, cols_to_check, counts, pc, error,
          processed_df, suppressed_count

vars == <<raw_df, k_value, hash_salt, selected_quasi_identifiers,
          df_clean, df_clean_is_df, cols_to_check, counts, pc, error,
          processed_df, suppressed_count>>

(* ---------------------------- bounds ------------------------------------ *)

\* largest number of records in an input dataset
MaxRows == 3

\* largest anonymity level offered (the slider goes further; the cases repeat)
MaxK == 3

(* ------------------------ generic helpers ------------------------------- *)

Min(a, b) == IF a <= b THEN a ELSE b

Range(s) == {s[i] : i \in 1..Len(s)}

\* the subsequence of s at the positions satisfying keep, in order
RECURSIVE SelectIdx(_, _, _)
SelectIdx(s, keep, i) ==
    IF i > Len(s) THEN <<>>
    ELSE (IF i \in keep THEN <<s[i]>> ELSE <<>>) \o SelectIdx(s, keep, i + 1)

\* a sequence without the entries equal to x
RECURSIVE Without(_, _)
Without(s, x) ==
    IF s = <<>> THEN <<>>
    ELSE (IF Head(s) = x THEN <<>> ELSE <<Head(s)>>) \o Without(Tail(s), x)

(* ------------------------- input domain --------------------------------- *)

\* column labels of the dataset built by load_synthetic_data
AllColumns == <<"Patient_Name", "Patient_ID", "Age", "ZIP_Code", "Gender",
                "Diagnosis", "Treatment_Cost">>

\* options of the quasi-identifier multiselect
quasi_identifier_options == <<"Age", "ZIP_Code", "Gender">>

\* records a dataset is drawn from: ages sharing and not sharing a decade,
\* ZIP codes sharing and not sharing a 3-character prefix (one shorter than
\* 3), identifiers held as strings and as integers
Patients ==
    { [Patient_Name |-> "John Smith",   Patient_ID |-> [str |-> "PID-7"],
       Age |-> 23, ZIP_Code |-> "12345", Gender |-> "M",
       Diagnosis |-> "Hypertension", Treatment_Cost |-> 500],
      [Patient_Name |-> "Maria Garcia", Patient_ID |-> [int |-> 1001],
       Age |-> 25, ZIP_Code |-> "12347", Gender |-> "M",
       Diagnosis |-> "Diabetes", Treatment_Cost |-> 900],
      [Patient_Name |-> "Robert Chen",  Patient_ID |-> [str |-> "1001"],
       Age |-> 31, ZIP_Code |-> "12401", Gender |-> "F",
       Diagnosis |-> "Asthma", Treatment_Cost |-> 4200],
      [Patient_Name |-> "Sarah Johnson", Patient_ID |-> [int |-> 8],
       Age |-> 23, ZIP_Code |-> "54", Gender |-> "F",
       Diagnosis |-> "Diabetes", Treatment_Cost |-> 500] }

\* schemas of the datasets handed in: the full one, and uploads lacking columns
Schemas ==
    { AllColumns,
      Without(AllColumns, "Patient_Name"),
      Without(AllColumns, "Patient_ID"),
      Without(Without(AllColumns, "Patient_Name"), "Patient_ID"),
      Without(AllColumns, "ZIP_Code") }

Salts == {"", "HMA"}

\* selections the multiselect can return (in option order, and one reordered)
Selections ==
    { SelectIdx(quasi_identifier_options, keep, 1) : keep \in SUBSET (1..3) }
      \cup { <<"Gender", "Age">> }

\* pd.DataFrame(data) / pd.read_csv: default RangeIndex, one row per record
MakeFrame(columns, recs) ==
    [ columns |-> columns,
      index   |-> [i \in 1..Len(recs) |-> i - 1],
      rows    |-> [i \in 1..Len(recs) |->
                     [c \in Range(columns) |-> recs[i][c]]] ]

Datasets ==
    UNION { { MakeFrame(cols, recs) : recs \in [1..n -> Patients] } :
            <<n, cols>> \in (0..MaxRows) \X Schemas }

NoFrame == [columns |-> <<>>, index |-> <<>>, rows |-> <<>>]

(* ---------------------- stages of deidentify_data ----------------------- *)

\* len(df)
len(df) == Len(df.rows)

\* df[c] raises KeyError unless c is a column label
HasColumn(df, c) == c \in Range(df.columns)

\* df_clean = df in place of df.copy(): the same object under a second name
DataFrameCopy_Alias(df) == [frame |-> df, is_df |-> TRUE]

\* df.copy(): a new object with the contents of df
DataFrameCopy(df) == [frame |-> df, is_df |-> FALSE]

\* str(val)
str(val) == IF "int" \in DOMAIN val THEN ToString(val.int) ELSE val.str

\* hashlib.sha256(s.encode()).hexdigest()[:12] : the digest is a one-way
\* value of its own kind, determined by the text hashed
sha256_hex12(s) == [sha256_12 |-> s]

\* hash_val with the salt left out of the hashed text
hash_val_NoSalt(val, salt) == sha256_hex12(str(val))

\* hash_val
hash_val(val, salt) == sha256_hex12(str(val) \o salt)

\* df_clean['Patient_ID'].apply(hash_val)
HashPatientID(df, salt) ==
    [df EXCEPT !.rows = [i \in 1..Len(df.rows) |->
        [df.rows[i] EXCEPT !.Patient_ID = hash_val(@, salt)]]]

\* df_clean.drop(columns=['Patient_Name'])
DropColumn(df, c) ==
    [df EXCEPT !.columns = Without(df.columns, c),
               !.rows = [i \in 1..Len(df.rows) |->
                           [d \in DOMAIN df.rows[i] \ {c} |-> df.rows[i][d]]]]

\* the age labelled without binning
AgeBin_NoBinning(age) == ToString(age) \o "s"

\* (age // 10 * 10).astype(str) + "s"
AgeBin(age) == ToString((age \div 10) * 10) \o "s"

\* df_clean['Age'] = ... : the column replaced cell by cell
GeneralizeAge(df) ==
    [df EXCEPT !.rows = [i \in 1..Len(df.rows) |->
        [df.rows[i] EXCEPT !.Age = AgeBin(@)]]]

\* zip.str[:3] + "**"
ZipMask(zip) == SubSeq(zip, 1, Min(3, Len(zip))) \o "**"

\* df_clean['ZIP_Code'] = ... : the column replaced cell by cell
GeneralizeZip(df) ==
    [df EXCEPT !.rows = [i \in 1..Len(df.rows) |->
        [df.rows[i] EXCEPT !.ZIP_Code = ZipMask(@)]]]

\* the helper column filled with the row number instead of a constant
AddDummy_RowNumber(df) ==
    [df EXCEPT !.columns = df.columns \o <<"__dummy__">>,
               !.rows = [i \in 1..Len(df.rows) |->
                           [d \in DOMAIN df.rows[i] \cup {"__dummy__"} |->
                              IF d = "__dummy__" THEN i ELSE df.rows[i][d]]]]

\* df_clean['__dummy__'] = 1
AddDummy(df) ==
    [df EXCEPT !.columns = df.columns \o <<"__dummy__">>,
               !.rows = [i \in 1..Len(df.rows) |->
                           [d \in DOMAIN df.rows[i] \cup {"__dummy__"} |->
                              IF d = "__dummy__" THEN 1 ELSE df.rows[i][d]]]]

\* the group key of a row: its values over the grouping columns
GroupKey(row, cols) == [i \in 1..Len(cols) |-> row[cols[i]]]

\* grouping by the first selected column only
GroupCounts_FirstColumn(df, cols) ==
    [i \in 1..Len(df.rows) |->
        Cardinality({j \in 1..Len(df.rows) :
                        df.rows[j][cols[1]] = df.rows[i][cols[1]]})]

\* counting the other members of the group, the row itself left out
GroupCounts_Others(df, cols) ==
    [i \in 1..Len(df.rows) |->
        Cardinality({j \in 1..Len(df.rows) :
                        /\ j # i
                        /\ GroupKey(df.rows[j], cols) = GroupKey(df.rows[i], cols)})]

\* groupby(cols)[cols[0]].transform('count'): per row, the number of rows
\* of its group
GroupCounts(df, cols) ==
    [i \in 1..Len(df.rows) |->
        Cardinality({j \in 1..Len(df.rows) :
                        GroupKey(df.rows[j], cols) = GroupKey(df.rows[i], cols)})]

\* the mask with a strict comparison
Suppress_Strict(df, cnt, k) ==
    LET keep == {i \in 1..Len(df.rows) : cnt[i] > k} IN
    [df EXCEPT !.index = SelectIdx(df.index, keep, 1),
               !.rows  = SelectIdx(df.rows, keep, 1)]

\* the mask with the comparison turned round
Suppress_Flipped(df, cnt, k) ==
    LET keep == {i \in 1..Len(df.rows) : cnt[i] <= k} IN
    [df EXCEPT !.index = SelectIdx(df.index, keep, 1),
               !.rows  = SelectIdx(df.rows, keep, 1)]

\* df_clean[counts >= k]: boolean-mask selection, index labels kept
Suppress(df, cnt, k) ==
    LET keep == {i \in 1..Len(df.rows) : cnt[i] >= k} IN
    [df EXCEPT !.index = SelectIdx(df.index, keep, 1),
               !.rows  = SelectIdx(df.rows, keep, 1)]

(* ----------------------------- actions ---------------------------------- *)

Init ==
    /\ raw_df \in Datasets
    /\ k_value \in 1..MaxK
    /\ hash_salt \in Salts
    /\ selected_quasi_identifiers \in Selections
    /\ df_clean = NoFrame
    /\ df_clean_is_df = FALSE
    /\ cols_to_check = <<>>
    /\ counts = <<>>
    /\ pc = "call"
    /\ error = "none"
    /\ processed_df = NoFrame
    /\ suppressed_count = -1

inputs == <<raw_df, k_value, hash_salt, selected_quasi_identifiers>>
results == <<processed_df, suppressed_count>>
settings == <<k_value, hash_salt, selected_quasi_identifiers>>
frames == <<raw_df, df_clean, df_clean_is_df>>

\* df_clean[...] = new : the object df_clean names is changed in place, and
\* with it the caller's frame when that is the same object
InPlace(new) ==
    /\ df_clean' = new
    /\ raw_df' = IF df_clean_is_df THEN new ELSE raw_df
    /\ UNCHANGED df_clean_is_df

\* df_clean = new : the name df_clean is bound to a new object
Rebind(new) ==
    /\ df_clean' = new
    /\ df_clean_is_df' = FALSE
    /\ UNCHANGED raw_df

\* the exception leaves deidentify_data: the script stops
Raise(e) ==
    /\ pc' = "error"
    /\ error' = e

\* line 104 and line 76: the call binds the parameters, df.copy()
Call ==
    /\ pc = "call"
    /\ df_clean' = DataFrameCopy(raw_df).frame
    /\ df_clean_is_df' = DataFrameCopy(raw_df).is_df
    /\ cols_to_check' = selected_quasi_identifiers
    /\ pc' = "hash"
    /\ UNCHANGED <<inputs, counts, error, results>>

\* line 82
MaskPatientID ==
    /\ pc = "hash"
    /\ IF HasColumn(df_clean, "Patient_ID")
       THEN /\ InPlace(HashPatientID(df_clean, hash_salt))
            /\ pc' = "drop"
            /\ UNCHANGED error
       ELSE /\ Raise("KeyError")
            /\ UNCHANGED frames
    /\ UNCHANGED <<settings, cols_to_check, counts, results>>

\* line 84
DropPatientName ==
    /\ pc = "drop"
    /\ IF HasColumn(df_clean, "Patient_Name")
       THEN /\ Rebind(DropColumn(df_clean, "Patient_Name"))
            /\ pc' = "age"
            /\ UNCHANGED error
       ELSE /\ Raise("KeyError")
            /\ UNCHANGED frames
    /\ UNCHANGED <<settings, cols_to_check, counts, results>>

\* line 87
BinAge ==
    /\ pc = "age"
    /\ IF HasColumn(df_clean, "Age")
       THEN /\ InPlace(GeneralizeAge(df_clean))
            /\ pc' = "zip"
            /\ UNCHANGED error
       ELSE /\ Raise("KeyError")
            /\ UNCHANGED frames
    /\ UNCHANGED <<settings, cols_to_check, counts, results>>

\* line 90
MaskZip ==
    /\ pc = "zip"
    /\ IF HasColumn(df_clean, "ZIP_Code")
       THEN /\ InPlace(GeneralizeZip(df_clean))
            /\ pc' = "check"
            /\ UNCHANGED error
       ELSE /\ Raise("KeyError")
            /\ UNCHANGED frames
    /\ UNCHANGED <<settings, cols_to_check, counts, results>>

\* lines 93-96
DummyFallback ==
    /\ pc = "check"
    /\ IF cols_to_check = <<>>
       THEN /\ InPlace(AddDummy(df_clean))
            /\ cols_to_check' = <<"__dummy__">>
       ELSE UNCHANGED <<frames, cols_to_check>>
    /\ pc' = "count"
    /\ UNCHANGED <<settings, counts, error, results>>

\* line 97
CountGroups ==
    /\ pc = "count"
    /\ IF \A i \in 1..Len(cols_to_check) : HasColumn(df_clean, cols_to_check[i])
       THEN /\ counts' = GroupCounts(df_clean, cols_to_check)
            /\ pc' = "filter"
            /\ UNCHANGED error
       ELSE /\ Raise("KeyError")
            /\ UNCHANGED counts
    /\ UNCHANGED <<inputs, df_clean, df_clean_is_df, cols_to_check, results>>

\* line 100
SuppressRows ==
    /\ pc = "filter"
    /\ Rebind(Suppress(df_clean, counts, k_value))
    /\ pc' = "return"
    /\ UNCHANGED <<settings, cols_to_check, counts, error, results>>

\* the number of rows kept returned in place of the number removed
Return_KeptCount ==
    /\ pc = "return"
    /\ processed_df' = df_clean
    /\ suppressed_count' = len(df_clean)
    /\ pc' = "done"
    /\ UNCHANGED <<inputs, df_clean, df_clean_is_df, cols_to_check, counts, error>>

\* line 102, bound by line 104
Return ==
    /\ pc = "return"
    /\ processed_df' = df_clean
    /\ suppressed_count' = len(raw_df) - len(df_clean)
    /\ pc' = "done"
    /\ UNCHANGED <<inputs, df_clean, df_clean_is_df, cols_to_check, counts, error>>

Next ==
    \/ Call
    \/ MaskPatientID
    \/ DropPatientName
    \/ BinAge
    \/ MaskZip
    \/ DummyFallback
    \/ CountGroups
    \/ SuppressRows
    \/ Return

Spec == Init /\ [][Next]_vars

TypeOK ==
    /\ pc \in {"call", "hash", "drop", "age", "zip", "check", "count",
               "filter", "return", "done", "error"}
    /\ error \in {"none", "KeyError"}
    /\ df_clean_is_df \in BOOLEAN
    /\ k_value \in 1..MaxK

(* -------------- deidentify_data as a function of its arguments ---------- *)

\* lines 82-90 on a frame that has every column
Generalized(df, salt) ==
    GeneralizeZip(GeneralizeAge(
        DropColumn(HashPatientID(df, salt), "Patient_Name")))

\* lines 76-102 on a frame that has every column
deidentify_data(df, k, salt, cols) ==
    LET g   == Generalized(df, salt)
        d   == IF cols = <<>> THEN AddDummy(g) ELSE g
        c   == IF cols = <<>> THEN <<"__dummy__">> ELSE cols
        out == Suppress(d, GroupCounts(d, c), k)
    IN  [df |-> out, suppressed |-> len(df) - len(out)]

\* the steps compute what the function computes
StepsAgree ==
    pc = "done" =>
        /\ processed_df = deidentify_data(raw_df, k_value, hash_salt,
                                          selected_quasi_identifiers).df
        /\ suppressed_count = deidentify_data(raw_df, k_value, hash_salt,
                                          selected_quasi_identifiers).suppressed

(* ------------------- vocabulary of the properties ----------------------- *)

\* the input record that carries index label lbl
RawRow(lbl) == raw_df.rows[lbl + 1]

\* the generalized value of quasi-identifier c of an input record
GeneralizedValue(c, rec) ==
    IF c = "Age" THEN AgeBin(rec[c])
    ELSE IF c = "ZIP_Code" THEN ZipMask(rec[c])
    ELSE rec[c]

\* the generalized tuple of an input record over the selection sel
QITuple(rec, sel) == [i \in 1..Len(sel) |-> GeneralizedValue(sel[i], rec)]

\* positions of the input records that share the generalized tuple of record i
ClassOf(i, sel) ==
    {j \in 1..len(raw_df) :
        QITuple(raw_df.rows[j], sel) = QITuple(raw_df.rows[i], sel)}

\* the equivalence classes of the input over sel
Classes(sel) == {ClassOf(i, sel) : i \in 1..len(raw_df)}

RECURSIVE SumSizes(_)
SumSizes(S) ==
    IF S = {} THEN 0
    ELSE LET c == CHOOSE c \in S : TRUE
         IN  Cardinality(c) + SumSizes(S \ {c})

\* tuple of an output record over sel, read off the output itself
OutTuple(row, sel) == [i \in 1..Len(sel) |-> row[sel[i]]]

Sel == selected_quasi_identifiers

Done == pc = "done"

(* ------------------------------ claims ---------------------------------- *)

\* C1: in the returned dataset every record's tuple of generalized values
\* over the selected quasi-identifiers occurs at least k times among the
\* returned records.
C1_KAnonymity ==
    Done =>
        \A i \in 1..len(processed_df) :
            Cardinality({j \in 1..len(processed_df) :
                OutTuple(processed_df.rows[j], Sel)
                    = OutTuple(processed_df.rows[i], Sel)}) >= k_value

\* some records suppressed, some retained, under a non-empty selection
C1_Witness ==
    /\ Done
    /\ Sel # <<>>
    /\ k_value >= 2
    /\ len(processed_df) > 0
    /\ len(processed_df) < len(raw_df)

\* C2: the returned dataset is the stable filter of the generalized input:
\* the records retained are exactly those whose class over the selected
\* quasi-identifiers has at least k input records, in input order, each with
\* the generalized tuple of the input record it comes from.
C2_StableFilter ==
    Done =>
        /\ processed_df.index =
               SelectIdx(raw_df.index,
                         {i \in 1..len(raw_df) :
                              Cardinality(ClassOf(i, Sel)) >= k_value}, 1)
        /\ \A p \in 1..len(processed_df) :
               OutTuple(processed_df.rows[p], Sel)
                   = QITuple(RawRow(processed_df.index[p]), Sel)

\* the first record suppressed and the two after it retained in order
C2_Witness ==
    /\ Done
    /\ Sel # <<>>
    /\ len(raw_df) = 3
    /\ processed_df.index = <<1, 2>>

C4_SuppressionCount ==
    Done =>
        /\ suppressed_count = len(raw_df) - len(processed_df)
        /\ suppressed_count =
               SumSizes({c \in Classes(Sel) : Cardinality(c) < k_value})
        /\ suppressed_count >= 0
        /\ suppressed_count <= len(raw_df)

\* two classes of different sizes, both below k, suppressed
C4_Witness ==
    /\ Done
    /\ Cardinality({c \in Classes(Sel) : Cardinality(c) < k_value}) = 2
    /\ suppressed_count = 3

\* C5: no returned record carries Patient_Name, and every returned
\* Patient_ID is the 12-character digest of str(original) + salt, which is
\* not the original value.
C5_DirectIdentifiers ==
    Done =>
        /\ ~ HasColumn(processed_df, "Patient_Name")
        /\ \A p \in 1..len(processed_df) :
              LET row  == processed_df.rows[p]
                  orig == RawRow(processed_df.index[p]).Patient_ID
              IN  /\ "Patient_Name" \notin DOMAIN row
                  /\ row.Patient_ID = sha256_hex12(str(orig) \o hash_salt)
                  /\ row.Patient_ID # orig

\* a retained record whose identifier was an integer, hashed with a salt
C5_Witness ==
    /\ Done
    /\ hash_salt # ""
    /\ \E p \in 1..len(processed_df) :
          "int" \in DOMAIN RawRow(processed_df.index[p]).Patient_ID

\* a configured direct identifier is absent from the input schema
DirectIdentifierMissing ==
    \/ ~ HasColumn(raw_df, "Patient_ID")
    \/ ~ HasColumn(raw_df, "Patient_Name")

\* C6: when Patient_ID or Patient_Name is absent from the input schema the
\* pipeline fails with SchemaError, before any transform has run: the
\* working data is still the untouched copy of the input.
C6_SchemaErrorBeforeTransforms ==
    /\ (DirectIdentifierMissing => pc # "done")
    /\ (DirectIdentifierMissing /\ pc = "error") =>
            /\ error = "SchemaError"
            /\ df_clean = raw_df

\* C7: raising k never lowers the suppression count, and the records
\* retained under the larger k are among those retained under the smaller.
C7_MonotoneInK ==
    Done =>
        \A k2 \in k_value..MaxK :
            LET r == deidentify_data(raw_df, k2, hash_salt, Sel)
            IN  /\ suppressed_count <= r.suppressed
                /\ Range(r.df.index) \subseteq Range(processed_df.index)

\* a larger k that suppresses strictly more, with records retained before
C7_Witness ==
    /\ Done
    /\ len(processed_df) > 0
    /\ \E k2 \in k_value..MaxK :
          deidentify_data(raw_df, k2, hash_salt, Sel).suppressed
              > suppressed_count

\* C8: with k = 1 the suppression count is 0 and the output has as many
\* records as the input, for every selection.
C8_KOneSuppressesNothing ==
    (Done /\ k_value = 1) =>
        /\ suppressed_count = 0
        /\ len(processed_df) = len(raw_df)

\* k = 1 on a dataset holding a record alone in its class
C8_Witness ==
    /\ Done
    /\ k_value = 1
    /\ len(raw_df) >= 2
    /\ \E i \in 1..len(raw_df) : Cardinality(ClassOf(i, Sel)) = 1

\* C9: every returned record has exactly the attributes and values it had
\* after redaction and generalization, and its Diagnosis and Treatment_Cost
\* are those of the input record, for every selection.
C9_WholeRecordDecisionsOnly ==
    Done =>
        \A p \in 1..len(processed_df) :
            LET row == processed_df.rows[p]
                lbl == processed_df.index[p]
            IN  /\ row = Generalized(raw_df, hash_salt).rows[lbl + 1]
                /\ row.Diagnosis = RawRow(lbl).Diagnosis
                /\ row.Treatment_Cost = RawRow(lbl).Treatment_Cost

\* number of distinct values in column c
Distinct(df, c) == Cardinality({df.rows[i][c] : i \in 1..len(df)})

GeneralizedColumns == {"Age", "ZIP_Code"}

\* two input values of column c that generalization is meant to merge
SameBin(c, a, b) ==
    IF c = "Age" THEN a \div 10 = b \div 10
    ELSE SubSeq(a, 1, Min(3, Len(a))) = SubSeq(b, 1, Min(3, Len(b)))

\* C10 as stated: a generalized column with more than one distinct input
\* value has strictly fewer distinct values after generalization.
C10_StrictlyFewerDistinct ==
    pc = "check" =>
        \A c \in GeneralizedColumns :
            Distinct(raw_df, c) > 1 => Distinct(df_clean, c) < Distinct(raw_df, c)

\* C10 amended: generalization never increases the number of distinct values
\* of a column, and lowers it whenever two distinct input values share a
\* decade (Age) or their first three characters (ZIP_Code).
C10_NeverMoreDistinct ==
    pc = "check" =>
        \A c \in GeneralizedColumns :
            /\ Distinct(df_clean, c) <= Distinct(raw_df, c)
            /\ (\E i, j \in 1..len(raw_df) :
                    /\ raw_df.rows[i][c] # raw_df.rows[j][c]
                    /\ SameBin(c, raw_df.rows[i][c], raw_df.rows[j][c]))
               => Distinct(df_clean, c) < Distinct(raw_df, c)

\* three ages in two decades: three distinct values become two
C10_Witness ==
    /\ pc = "check"
    /\ Distinct(raw_df, "Age") = 3
    /\ Distinct(df_clean, "Age") = 2

\* C11: deidentify_data never mutates its inputs: no step of a call,
\* successful or failing, changes the caller's dataset or the caller's list
\* of selected quasi-identifiers; the stages work on a copy.
C11_InputsNeverMutated ==
    [][/\ raw_df' = raw_df
       /\ selected_quasi_identifiers' = selected_quasi_identifiers]_vars

\* a finished call with an empty selection: the working frame was hashed,
\* generalized and given the helper column, the local list was rebound, and
\* the caller's frame still has its Patient_Name column and its list is empty
C11_Witness ==
    /\ Done
    /\ len(raw_df) > 0
    /\ selected_quasi_identifiers = <<>>
    /\ cols_to_check = <<"__dummy__">>
    /\ HasColumn(df_clean, "__dummy__")
    /\ HasColumn(raw_df, "Patient_Name")
    /\ ~ df_clean_is_df
====
